---- MODULE Spec2Model ----
(***************************************************************************)
(* Model of enthought/mayavi/tools/figure.py: the process-wide set of used *)
(* scene numbers and the five functions figure, gcf, clf, draw, savefig,   *)
(* acting on engines that hold an ordered list of scenes and a current     *)
(* scene.                                                                  *)
(***************************************************************************)
EXTENDS Integers, Sequences, FiniteSets, TLC

\* ------------------------------------------------------------------ bounds
\* Largest number of scenes held by all engines together.
MaxScenes == 2
\* Largest scene number an auto-numbered figure() may allocate.
MaxNum == 3
\* Largest number of children of one figure.
MaxChildren == 1

\* ------------------------------------------------------------------ values
\* The engines a caller may pass; engine 1 is the one get_engine() returns.
Engines == {1, 2}

get_engine == 1

\* Integer names a caller passes to figure().
IntNames == {2}

\* 'Mayavi Scene ' as a sequence of characters.
ScenePrefix == <<"M", "a", "y", "a", "v", "i", " ", "S", "c", "e", "n", "e", " ">>

Digit(d) == <<"0", "1", "2", "3", "4", "5", "6", "7", "8", "9">>[d + 1]

RECURSIVE Decimal(_)
\* '%d' % n for n >= 0: the decimal digits, most significant first.
Decimal(n) == IF n < 10 THEN <<Digit(n)>> ELSE Decimal(n \div 10) \o <<Digit(n % 10)>>

\* 'Mayavi Scene %d' % n
SceneName(n) == ScenePrefix \o (IF n < 0 THEN <<"-">> \o Decimal(-n) ELSE Decimal(n))

\* String names a caller passes to figure().
StrNames == {SceneName(1), SceneName(2)}

\* The name argument of figure(): None, an integer or a string.
NoneName == [t |-> "none", n |-> 0, s |-> <<>>]

IntName(n) == [t |-> "int", n |-> n, s |-> <<>>]

StrName(s) == [t |-> "str", n |-> 0, s |-> s]

NameArgs == {NoneName} \cup {IntName(n) : n \in IntNames} \cup {StrName(s) : s \in StrNames}

\* The bgcolor and fgcolor arguments of figure(): None (the default) or a
\* colour of the caller's.
ColorArgs == {<<"None", "None">>, <<"user_bg", "user_fg">>}

\* options.background_color and options.foreground_color
options == [background_color |-> "options_bg", foreground_color |-> "options_fg"]

\* fig.scene of a figure without a viewer (None).
NoScene == [attached |-> FALSE, background |-> "-", foreground |-> "-", disable_render |-> FALSE]

\* fig.scene as the viewer creates it.
ViewerScene == [attached |-> TRUE, background |-> "viewer", foreground |-> "viewer", disable_render |-> FALSE]

\* What the engine's scene factory may produce for a new scene: a figure
\* with a scene attached (TRUE) or without one (FALSE).
Viewers == BOOLEAN

\* The name the engine gives a scene on its own.
EngineName == <<"?">>

\* ------------------------------------------------------------------- state
VARIABLES
  scene_number_list,  \* the module's set of allocated scene numbers
  engines,            \* engine -> [scenes: sequence of figures, current_scene: index, 0 for None]
  objs,               \* objects that are no figures, passed to clf
  frame,              \* the running call of clf: its line and its local `scene`
  last,               \* the last call made: its arguments and, once it returned, its result
  auto_numbers,       \* the numbers the name=None calls allocated, in order
  int_names           \* the integer names passed to figure() so far

vars == <<scene_number_list, engines, objs, frame, last, auto_numbers, int_names>>

Max(S) == CHOOSE m \in S : \A x \in S : x <= m

\* ------------------------------------------------------------ the engine
\* engine.new_scene(name=name, size=size): a new figure is appended to
\* engine.scenes and made the current scene. The name the engine gives it is
\* left open (figure() sets the name itself right after).
new_scene(eng, name, viewer) ==
  LET fig == [name |-> EngineName,
              scene |-> IF viewer THEN ViewerScene ELSE NoScene,
              children |-> <<>>]
  IN [scenes |-> Append(eng.scenes, fig), current_scene |-> Len(eng.scenes) + 1]

\* ---------------------------------------------------------------- figure()
\* A slip: the largest number used, not the one after it.
NextSceneNumber_NoIncrement(snl) == Max(snl)

\* max(__scene_number_list) + 1
NextSceneNumber(snl) == Max(snl) + 1

\* engine.current_scene.name = name
SetCurrentName(eng, name) == [eng EXCEPT !.scenes[eng.current_scene].name = name]

\* A slip: the set is replaced by the new number instead of updated.
AutoFigure_ReplacesSet(snl, eng, viewer) ==
  LET number == NextSceneNumber(snl)
      name == SceneName(number)
  IN [snl |-> {number},
      eng |-> SetCurrentName(new_scene(eng, name, viewer), name),
      ret |-> 0, auto |-> TRUE, num |-> number, created |-> TRUE]

\* The name is None: allocate the next number and create the scene.
AutoFigure(snl, eng, viewer) ==
  LET number == NextSceneNumber(snl)
      name == SceneName(number)
  IN [snl |-> snl \cup {number},
      eng |-> SetCurrentName(new_scene(eng, name, viewer), name),
      ret |-> 0, auto |-> TRUE, num |-> number, created |-> TRUE]

\* A slip: the integer name is not recorded.
RecordNumber_Forgotten(snl, name) == snl

\* An integer name is recorded in the set of numbers; a string is not.
RecordNumber(snl, name) == IF name.t = "int" THEN snl \cup {name.n} ELSE snl

\* An integer name n stands for 'Mayavi Scene n'; a string name for itself.
NormalizedName(name) == IF name.t = "int" THEN SceneName(name.n) ELSE name.s

\* for scene in engine.scenes: if scene.name == name: the index of the first
\* scene with the name, 0 when the loop ends without finding one.
FindScene(scenes, s) ==
  IF \E i \in 1..Len(scenes) : scenes[i].name = s
  THEN CHOOSE i \in 1..Len(scenes) : scenes[i].name = s /\ \A j \in 1..(i - 1) : scenes[j].name # s
  ELSE 0

\* A slip: the scene found is returned without being made current.
SelectScene_NotCurrent(eng, i) == eng

\* The scene found becomes the current scene (and figure returns it).
SelectScene(eng, i) == [eng EXCEPT !.current_scene = i]

\* The name is not None: retrieve the scene with the name or create it.
NamedFigure(snl, eng, name, viewer) ==
  LET s == NormalizedName(name)
      i == FindScene(eng.scenes, s)
  IN IF i # 0
     THEN [snl |-> RecordNumber(snl, name), eng |-> SelectScene(eng, i),
           ret |-> i, auto |-> FALSE, num |-> 0, created |-> FALSE]
     ELSE [snl |-> RecordNumber(snl, name),
           eng |-> SetCurrentName(new_scene(eng, s, viewer), s),
           ret |-> 0, auto |-> FALSE, num |-> 0, created |-> TRUE]

\* fig = engine.current_scene; the colours of fig.scene are set when fig has
\* a scene (the camera, set with them, is no part of the state modelled).
SetupFigure(eng, bgcolor, fgcolor) ==
  LET fig == eng.scenes[eng.current_scene]
      scene == fig.scene
  IN IF scene.attached
     THEN [eng EXCEPT !.scenes[eng.current_scene].scene =
             [scene EXCEPT !.background = IF bgcolor = "None" THEN options.background_color ELSE bgcolor,
                           !.foreground = IF fgcolor = "None" THEN options.foreground_color ELSE fgcolor]]
     ELSE eng

\* The branch of figure() taken for the name.
FigureBranch(snl, eng, name, viewer) ==
  IF name.t = "none" THEN AutoFigure(snl, eng, viewer) ELSE NamedFigure(snl, eng, name, viewer)

\* A slip: the colours are set on every path, a retrieved scene included.
figure_AlwaysSetup(snl, eng, name, bgcolor, fgcolor, viewer) ==
  LET r == FigureBranch(snl, eng, name, viewer)
      e == SetupFigure(r.eng, bgcolor, fgcolor)
  IN [snl |-> r.snl, eng |-> e, ret |-> IF r.created THEN e.current_scene ELSE r.ret,
      auto |-> r.auto, num |-> r.num, created |-> r.created]

\* figure(name, bgcolor, fgcolor, engine): the new set of numbers, the new
\* state of the engine, the index of the figure returned (the scene found by
\* the loop, or engine.current_scene after a creation), whether a number was
\* allocated and which, and whether a scene was created.
figure(snl, eng, name, bgcolor, fgcolor, viewer) ==
  LET r == FigureBranch(snl, eng, name, viewer)
      e == IF r.created THEN SetupFigure(r.eng, bgcolor, fgcolor) ELSE r.eng
  IN [snl |-> r.snl, eng |-> e, ret |-> IF r.created THEN e.current_scene ELSE r.ret,
      auto |-> r.auto, num |-> r.num, created |-> r.created]

\* ------------------------------------------------------------------- gcf()
\* A slip: a figure is created whether or not there is a current scene.
gcf_AlwaysNew(snl, eng, viewer) == figure(snl, eng, NoneName, "None", "None", viewer)

\* gcf(engine): the current scene, or a new auto-numbered figure.
gcf(snl, eng, viewer) ==
  IF eng.current_scene = 0
  THEN figure(snl, eng, NoneName, "None", "None", viewer)
  ELSE [snl |-> snl, eng |-> eng, ret |-> eng.current_scene,
        auto |-> FALSE, num |-> 0, created |-> FALSE]

\* ------------------------------------------------------------------- clf()
\* The figure argument of clf, draw and savefig: None, a figure of an engine,
\* or an object that is no figure.
NoTarget == [k |-> "none", e |-> 0, i |-> 0, o |-> "-"]

FigTarget(e, i) == [k |-> "fig", e |-> e, i |-> i, o |-> "-"]

ObjTarget(o) == [k |-> "obj", e |-> 0, i |-> 0, o |-> o]

\* Objects that are no figures: one without the attribute scene, one with a
\* scene but without the attribute children.
ObjIds == {"no_scene", "no_children"}

\* hasattr(t, 'scene') and t.scene is not None: t.scene.disable_render can
\* be assigned; AttributeError otherwise.
HasScene(engs, os, t) ==
  IF t.k = "fig" THEN engs[t.e].scenes[t.i].scene.attached
  ELSE os[t.o].has_scene /\ os[t.o].scene.attached

\* hasattr(t, 'children'); AttributeError otherwise.
HasChildren(os, t) == IF t.k = "fig" THEN TRUE ELSE os[t.o].has_children

SceneOf(engs, os, t) ==
  IF t.k = "fig" THEN engs[t.e].scenes[t.i].scene ELSE os[t.o].scene

ChildrenOf(engs, os, t) ==
  IF t.k = "fig" THEN engs[t.e].scenes[t.i].children ELSE os[t.o].children

\* scene.scene.disable_render = v
SetRender(engs, os, t, v) ==
  IF t.k = "fig"
  THEN [engs |-> [engs EXCEPT ![t.e].scenes[t.i].scene.disable_render = v], objs |-> os]
  ELSE [engs |-> engs, objs |-> [os EXCEPT ![t.o].scene.disable_render = v]]

\* scene.children[:] = []
ClearChildren(engs, os, t) ==
  IF t.k = "fig"
  THEN [engs |-> [engs EXCEPT ![t.e].scenes[t.i].children = <<>>], objs |-> os]
  ELSE [engs |-> engs, objs |-> [os EXCEPT ![t.o].children = <<>>]]

\* A slip: the handler names another exception.
Except_KeyError(exc) == exc = "KeyError"

\* except AttributeError: the exceptions the handler of clf catches.
Except(exc) == exc = "AttributeError"

\* ------------------------------------------------------------------- calls
\* The engine argument: None (0) stands for get_engine().
EngineArgs == {0} \cup Engines

ResolveEngine(engine) == IF engine = 0 THEN get_engine ELSE engine

TotalScenes(engs) ==
  LET RECURSIVE Sum(_)
      Sum(E) == IF E = {} THEN 0
                ELSE LET e == CHOOSE x \in E : TRUE
                     IN Len(engs[e].scenes) + Sum(E \ {e})
  IN Sum(Engines)

\* The calls explored stay within the bounds.
WithinBounds(engs, r) ==
  /\ r.created => TotalScenes(engs) < MaxScenes
  /\ r.auto => r.num <= MaxNum

\* The figure arguments a caller can pass in the state: None, the figures of
\* the engines and the objects that are no figures.
Targets(engs) ==
  {NoTarget} \cup {ObjTarget(o) : o \in ObjIds}
  \cup {FigTarget(e, i) : e \in Engines, i \in 1..MaxScenes}

FigureTargets(engs) ==
  {t \in Targets(engs) : t.k = "none" \/ (t.k = "fig" /\ t.i <= Len(engs[t.e].scenes))}

ClfTargets(engs) ==
  {t \in Targets(engs) : t.k # "fig" \/ t.i <= Len(engs[t.e].scenes)}

NoResult == [ret |-> 0, auto |-> FALSE, num |-> 0, created |-> FALSE]

Result(r) == [ret |-> r.ret, auto |-> r.auto, num |-> r.num, created |-> r.created]

\* The figure a call acts on: the argument, or gcf() when it is None; with
\* the set of numbers and the engines as gcf() leaves them.
Resolve(snl, engs, target, viewer) ==
  IF target.k = "none"
  THEN LET r == gcf(snl, engs[get_engine], viewer)
       IN [snl |-> r.snl, engs |-> [engs EXCEPT ![get_engine] = r.eng],
           t |-> FigTarget(get_engine, r.ret), r |-> Result(r)]
  ELSE [snl |-> snl, engs |-> engs, t |-> target, r |-> NoResult]

\* No call of clf is running.
Idle == [pc |-> "idle", explicit |-> FALSE, scene |-> NoTarget, r |-> NoResult, exc |-> "none"]

\* The record of a call: the function, the engine it acted on, its name,
\* colour and figure arguments (the figure resolved), what figure() or gcf() gave, and
\* how it ended: an exception raised to the caller, an AttributeError caught,
\* gc.collect() run.
Call(op, engine, name, color, explicit, target, r, raised, caught, gc) ==
  [op |-> op, engine |-> engine, name |-> name, color |-> color, explicit |-> explicit, target |-> target,
   ret |-> r.ret, auto |-> r.auto, num |-> r.num, created |-> r.created,
   raised |-> raised, caught |-> caught, gc |-> gc]

NoColor == <<"None", "None">>

Allocated(r) == IF r.auto THEN Append(auto_numbers, r.num) ELSE auto_numbers

\* ----------------------------------------------------------------- actions
Init ==
  /\ scene_number_list = {0}
  /\ engines = [e \in Engines |-> [scenes |-> <<>>, current_scene |-> 0]]
  /\ objs = [o \in ObjIds |->
               [has_scene |-> o # "no_scene",
                scene |-> IF o # "no_scene" THEN ViewerScene ELSE NoScene,
                has_children |-> o # "no_children",
                children |-> <<>>]]
  /\ frame = Idle
  /\ last = Call("init", 0, NoneName, NoColor, FALSE, NoTarget, NoResult, FALSE, FALSE, FALSE)
  /\ auto_numbers = <<>>
  /\ int_names = {}

\* figure(name, bgcolor, fgcolor, engine)
FigureCall(EArgs, Names, Colors) ==
  \E engine \in EArgs, name \in Names, color \in Colors, viewer \in Viewers :
    LET e == ResolveEngine(engine)
        r == figure(scene_number_list, engines[e], name, color[1], color[2], viewer)
    IN /\ frame.pc = "idle"
       /\ WithinBounds(engines, r)
       /\ scene_number_list' = r.snl
       /\ engines' = [engines EXCEPT ![e] = r.eng]
       /\ auto_numbers' = Allocated(r)
       /\ int_names' = IF name.t = "int" THEN int_names \cup {name.n} ELSE int_names
       /\ last' = Call("figure", e, name, color, FALSE, NoTarget, r, FALSE, FALSE, FALSE)
       /\ UNCHANGED <<objs, frame>>

\* gcf(engine)
GcfCall(EArgs) ==
  \E engine \in EArgs, viewer \in Viewers :
    LET e == ResolveEngine(engine)
        r == gcf(scene_number_list, engines[e], viewer)
    IN /\ frame.pc = "idle"
       /\ WithinBounds(engines, r)
       /\ scene_number_list' = r.snl
       /\ engines' = [engines EXCEPT ![e] = r.eng]
       /\ auto_numbers' = Allocated(r)
       /\ last' = Call("gcf", e, NoneName, NoColor, FALSE, NoTarget, r, FALSE, FALSE, FALSE)
       /\ UNCHANGED <<objs, frame, int_names>>

\* draw(figure): figure.render()
Draw ==
  \E target \in FigureTargets(engines), viewer \in Viewers :
    LET g == Resolve(scene_number_list, engines, target, viewer)
    IN /\ frame.pc = "idle"
       /\ WithinBounds(engines, g.r)
       /\ scene_number_list' = g.snl
       /\ engines' = g.engs
       /\ auto_numbers' = Allocated(g.r)
       /\ last' = Call("draw", g.t.e, NoneName, NoColor, target.k # "none", g.t, g.r, FALSE, FALSE, FALSE)
       /\ UNCHANGED <<objs, frame, int_names>>

\* savefig(filename, size, figure): figure.scene.save(filename, size=size);
\* AttributeError leaves the call when figure.scene is None.
Savefig ==
  \E target \in FigureTargets(engines), viewer \in Viewers :
    LET g == Resolve(scene_number_list, engines, target, viewer)
    IN /\ frame.pc = "idle"
       /\ WithinBounds(engines, g.r)
       /\ scene_number_list' = g.snl
       /\ engines' = g.engs
       /\ auto_numbers' = Allocated(g.r)
       /\ last' = Call("savefig", g.t.e, NoneName, NoColor, target.k # "none", g.t, g.r,
                       ~HasScene(g.engs, objs, g.t), FALSE, FALSE)
       /\ UNCHANGED <<objs, frame, int_names>>

\* clf(figure), lines 107-111: scene = gcf() or scene = figure.
Clf ==
  \E target \in ClfTargets(engines), viewer \in Viewers :
    LET g == Resolve(scene_number_list, engines, target, viewer)
    IN /\ frame.pc = "idle"
       /\ WithinBounds(engines, g.r)
       /\ scene_number_list' = g.snl
       /\ engines' = g.engs
       /\ auto_numbers' = Allocated(g.r)
       /\ frame' = [pc |-> "clf_112", explicit |-> target.k # "none", scene |-> g.t,
                    r |-> g.r, exc |-> "none"]
       /\ last' = Call("clf", g.t.e, NoneName, NoColor, target.k # "none", g.t, g.r, FALSE, FALSE, FALSE)
       /\ UNCHANGED <<objs, int_names>>

\* A slip: line 112 leaves the flag as it is.
Clf112_NotDisabled ==
  /\ frame.pc = "clf_112"
  /\ frame' = IF HasScene(engines, objs, frame.scene) THEN [frame EXCEPT !.pc = "clf_113"]
               ELSE [frame EXCEPT !.pc = "clf_115", !.exc = "AttributeError"]
  /\ UNCHANGED <<scene_number_list, engines, objs, last, auto_numbers, int_names>>

\* clf line 112: scene.scene.disable_render = True; AttributeError leads to
\* the handler.
Clf112 ==
  /\ frame.pc = "clf_112"
  /\ LET ok == HasScene(engines, objs, frame.scene)
         u == SetRender(engines, objs, frame.scene, TRUE)
     IN /\ engines' = IF ok THEN u.engs ELSE engines
        /\ objs' = IF ok THEN u.objs ELSE objs
        /\ frame' = IF ok THEN [frame EXCEPT !.pc = "clf_113"]
                    ELSE [frame EXCEPT !.pc = "clf_115", !.exc = "AttributeError"]
  /\ UNCHANGED <<scene_number_list, last, auto_numbers, int_names>>

\* clf line 113: scene.children[:] = []; AttributeError leads to the handler.
Clf113 ==
  /\ frame.pc = "clf_113"
  /\ LET ok == HasChildren(objs, frame.scene)
         u == ClearChildren(engines, objs, frame.scene)
     IN /\ engines' = IF ok THEN u.engs ELSE engines
        /\ objs' = IF ok THEN u.objs ELSE objs
        /\ frame' = IF ok THEN [frame EXCEPT !.pc = "clf_114"]
                    ELSE [frame EXCEPT !.pc = "clf_115", !.exc = "AttributeError"]
  /\ UNCHANGED <<scene_number_list, last, auto_numbers, int_names>>

\* clf line 114: scene.scene.disable_render = False
Clf114 ==
  /\ frame.pc = "clf_114"
  /\ LET u == SetRender(engines, objs, frame.scene, FALSE)
     IN /\ engines' = u.engs
        /\ objs' = u.objs
  /\ frame' = [frame EXCEPT !.pc = "clf_115"]
  /\ UNCHANGED <<scene_number_list, last, auto_numbers, int_names>>

\* clf lines 115-117: an exception the handler catches is dropped, any other
\* leaves clf; gc.collect() runs when none leaves; clf returns.
Clf115 ==
  /\ frame.pc = "clf_115"
  /\ LET caught == frame.exc # "none" /\ Except(frame.exc)
         raised == frame.exc # "none" /\ ~Except(frame.exc)
     IN last' = [last EXCEPT !.raised = raised, !.caught = caught, !.gc = ~raised]
  /\ frame' = Idle
  /\ UNCHANGED <<scene_number_list, engines, objs, auto_numbers, int_names>>

\* A source is added to a figure (the plotting functions, engine.add_source).
AddChild ==
  \E e \in Engines :
    \E i \in 1..Len(engines[e].scenes) :
      /\ frame.pc = "idle"
      /\ Len(engines[e].scenes[i].children) < MaxChildren
      /\ engines' = [engines EXCEPT ![e].scenes[i].children = Append(@, "source")]
      /\ last' = Call("add_child", e, NoneName, NoColor, TRUE, FigTarget(e, i), NoResult, FALSE, FALSE, FALSE)
      /\ UNCHANGED <<scene_number_list, objs, frame, auto_numbers, int_names>>

\* The caller disables the rendering of a figure's scene:
\* fig.scene.disable_render = True.
DisableRender ==
  \E e \in Engines :
    \E i \in 1..Len(engines[e].scenes) :
      /\ frame.pc = "idle"
      /\ engines[e].scenes[i].scene.attached
      /\ ~engines[e].scenes[i].scene.disable_render
      /\ engines' = [engines EXCEPT ![e].scenes[i].scene.disable_render = TRUE]
      /\ last' = Call("disable_render", e, NoneName, NoColor, TRUE, FigTarget(e, i), NoResult, FALSE, FALSE, FALSE)
      /\ UNCHANGED <<scene_number_list, objs, frame, auto_numbers, int_names>>

\* ---------------------------------------------------------- specifications
\* Naming and retrieval: figure and gcf on both engines.
Figure == FigureCall(EngineArgs, NameArgs, ColorArgs)

Gcf == GcfCall(EngineArgs)

Next == Figure \/ Gcf

Spec == Init /\ [][Next]_vars

\* Clearing: every function on the engine get_engine() returns, with sources
\* added to the figures and rendering disabled by the caller in between.
DefaultNames == {NoneName} \cup {IntName(n) : n \in IntNames}

DefaultFigure == FigureCall({0}, DefaultNames, {NoColor})

DefaultGcf == GcfCall({0})

ClfNext ==
  \/ DefaultFigure \/ DefaultGcf \/ Draw \/ Savefig
  \/ Clf \/ Clf112 \/ Clf113 \/ Clf114 \/ Clf115
  \/ AddChild \/ DisableRender

ClfSpec == Init /\ [][ClfNext]_vars

\* ------------------------------------------------------------------ claims
\* The name figure() gives a scene for the name argument of a call.
RequestedName(c) ==
  IF c.name.t = "none" THEN SceneName(c.num)
  ELSE IF c.name.t = "int" THEN SceneName(c.name.n) ELSE c.name.s

\* The names of the scenes of an engine, in engine order.
SceneNames(eng) == [i \in 1..Len(eng.scenes) |-> eng.scenes[i].name]

\* C1: the numbers allocated by the successive name=None calls are strictly
\* increasing, so the names 'Mayavi Scene <n>' of any two of them differ.
C1_AutoNumbersIncrease ==
  \A i \in 1..Len(auto_numbers) : \A j \in 1..Len(auto_numbers) :
    i < j => /\ auto_numbers[i] < auto_numbers[j]
             /\ SceneName(auto_numbers[i]) # SceneName(auto_numbers[j])

\* Two name=None calls were made and a scene bears the name of the second
\* number.
C1_Witness ==
  /\ Len(auto_numbers) = 2
  /\ last.op = "figure" /\ last.auto
  /\ \E e \in Engines : \E i \in 1..Len(engines[e].scenes) :
       engines[e].scenes[i].name = SceneName(auto_numbers[2])

\* C2: the name given to a scene by a name=None call of figure() differs from
\* the name of every scene the engine already held.
C2_AutoNameIsFresh ==
  [][(last'.op = "figure" /\ last'.auto) =>
       \A i \in 1..Len(engines[last'.engine].scenes) :
         engines[last'.engine].scenes[i].name # engines'[last'.engine].scenes[last'.ret].name]_vars

\* C10: after figure() the figure returned is the engine's current scene and
\* has the name asked for (or the generated one).
C10_ReturnedIsCurrentAndNamed ==
  last.op = "figure" =>
    /\ last.ret # 0
    /\ engines[last.engine].current_scene = last.ret
    /\ engines[last.engine].scenes[last.ret].name = RequestedName(last)

\* figure() retrieved a scene that was not the current one before: the engine
\* holds two scenes and the first was asked for by name.
C10_Witness ==
  /\ last.op = "figure" /\ ~last.created
  /\ Len(engines[last.engine].scenes) = 2
  /\ last.ret = 1

\* The scenes an engine held are as they were, the last one apart.
KeptScenes(e) == SubSeq(engines'[e].scenes, 1, Len(engines[e].scenes)) = engines[e].scenes

\* C6: gcf returns the current scene when there is one, creating nothing and
\* leaving the set of numbers alone; when there is none it creates exactly
\* one auto-numbered scene and returns it as the engine's current scene.
C6_GcfFetchesOrCreates ==
  [][last'.op = "gcf" =>
       LET e == last'.engine
       IN /\ \A o \in Engines \ {e} : engines'[o] = engines[o]
          /\ IF engines[e].current_scene # 0
             THEN /\ last'.ret = engines[e].current_scene
                  /\ engines'[e] = engines[e]
                  /\ scene_number_list' = scene_number_list
             ELSE /\ Len(engines'[e].scenes) = Len(engines[e].scenes) + 1
                  /\ KeptScenes(e)
                  /\ last'.ret = Len(engines'[e].scenes)
                  /\ engines'[e].current_scene = last'.ret
                  /\ last'.num \notin scene_number_list
                  /\ scene_number_list' = scene_number_list \cup {last'.num}
                  /\ engines'[e].scenes[last'.ret].name = SceneName(last'.num)]_vars

\* gcf created a figure on an engine without a current scene after numbers
\* had been used on the other engine.
C6_Witness ==
  /\ last.op = "gcf" /\ last.created
  /\ last.num > 1
  /\ \E o \in Engines \ {last.engine} : engines[o].current_scene # 0

\* C7: with a name that some scene of the engine has, figure returns the
\* first such scene, makes it current and changes nothing else of the engine
\* (no scene added, no colour reset); a scene is created only when none has
\* the name.
C7_NamedFigureRetrieves ==
  [][(last'.op = "figure" /\ last'.name.t # "none") =>
       LET e == last'.engine
           s == RequestedName(last')
           found == {i \in 1..Len(engines[e].scenes) : engines[e].scenes[i].name = s}
       IN IF found # {}
          THEN /\ last'.ret \in found
               /\ \A i \in found : last'.ret <= i
               /\ engines'[e].current_scene = last'.ret
               /\ engines'[e].scenes = engines[e].scenes
               /\ ~last'.created
          ELSE /\ last'.created
               /\ Len(engines'[e].scenes) = Len(engines[e].scenes) + 1
               /\ KeptScenes(e)]_vars

\* figure() retrieved the first of two scenes of one name, whose colours are
\* not the ones the call would set.
C7_Witness ==
  /\ last.op = "figure" /\ last.name.t # "none" /\ ~last.created
  /\ LET scenes == engines[last.engine].scenes
     IN /\ Len(scenes) = 2
        /\ scenes[1].name = scenes[2].name
        /\ last.ret = 1
        /\ scenes[1].scene.attached
        /\ scenes[1].scene.background = "user_bg"
        /\ last.color = NoColor

\* C9: figure(n) acts on the engine as figure('Mayavi Scene <n>') does and
\* records n in the set of numbers, created or retrieved; a string name adds
\* nothing to the set; every later name=None call gets a number above n.
C9_IntegerNameIsSceneNumber ==
  [][/\ (last'.op = "figure" /\ last'.name.t = "int") =>
          /\ scene_number_list' = scene_number_list \cup {last'.name.n}
          /\ \E viewer \in Viewers :
               LET r == figure(scene_number_list, engines[last'.engine],
                               StrName(SceneName(last'.name.n)), last'.color[1], last'.color[2], viewer)
               IN /\ engines'[last'.engine] = r.eng
                  /\ last'.ret = r.ret
                  /\ last'.created = r.created
     /\ (last'.op = "figure" /\ last'.name.t = "str") =>
          scene_number_list' = scene_number_list
     /\ (last'.op \in {"figure", "gcf"} /\ last'.auto) =>
          \A n \in int_names : last'.num > n]_vars

\* A name=None call after figure(2), which had retrieved a scene made under
\* the string name: the number allocated is 3 and 1 was never used.
C9_Witness ==
  /\ last.op = "figure" /\ last.auto /\ last.num = 3
  /\ 2 \in int_names
  /\ 1 \notin scene_number_list
  /\ Len(engines[last.engine].scenes) = 2

\* clf has returned; last holds its call.
ClfReturned == last.op = "clf" /\ frame.pc = "idle"

\* C3: after clf(f) returns, f has no children, for every figure f, one
\* without a scene included.
C3_ClfLeavesFigureEmpty ==
  (ClfReturned /\ last.target.k = "fig") => ChildrenOf(engines, objs, last.target) = <<>>

\* C4: for a figure with a scene, disable_render is True at the step that
\* removes the children and False when clf returns.
C4_ClearedWithRenderingDisabled ==
  /\ (frame.pc \in {"clf_113", "clf_114"} /\ frame.scene.k = "fig") =>
       SceneOf(engines, objs, frame.scene).disable_render
  /\ (frame.pc = "clf_114" /\ frame.scene.k = "fig") =>
       ChildrenOf(engines, objs, frame.scene) = <<>>
  /\ (ClfReturned /\ last.target.k = "fig" /\ HasScene(engines, objs, last.target)) =>
       ~SceneOf(engines, objs, last.target).disable_render

\* clf is about to remove the children of a figure with a scene: it has a
\* child and rendering is disabled.
C4_Witness ==
  /\ frame.pc = "clf_113" /\ frame.scene.k = "fig"
  /\ ChildrenOf(engines, objs, frame.scene) # <<>>
  /\ SceneOf(engines, objs, frame.scene).disable_render

\* C5: clf returns without raising for any target, and gc.collect() has run
\* when it returns, on the normal and on the error path; a call of clf under
\* way can always take its next step.
C5_ClfIgnoresAttributeError ==
  /\ ClfReturned => (~last.raised /\ last.gc)
  /\ frame.pc # "idle" => ENABLED (Clf112 \/ Clf113 \/ Clf114 \/ Clf115)

\* clf returned after an AttributeError on an object without children.
C5_Witness ==
  /\ ClfReturned /\ last.caught /\ last.gc
  /\ last.target = ObjTarget("no_children")

\* C8: the set of numbers only grows and always holds 0; clf, draw and
\* savefig with a figure given, and gcf with a current scene, leave the set
\* and every engine's list of scenes as they are.
C8_SetMutatedOnlyByFigure ==
  /\ [](0 \in scene_number_list)
  /\ [][/\ scene_number_list \subseteq scene_number_list'
        /\ (\/ last'.op \in {"clf", "draw", "savefig"} /\ last'.explicit
            \/ last'.op = "gcf" /\ engines[last'.engine].current_scene # 0) =>
             /\ scene_number_list' = scene_number_list
             /\ \A e \in Engines : SceneNames(engines'[e]) = SceneNames(engines[e])]_vars

\* clf with a figure given has returned after two numbers were allocated.
C8_Witness ==
  /\ ClfReturned /\ last.explicit
  /\ Cardinality(scene_number_list) = 3
====
